---- MODULE Spec2Model ----
(***************************************************************************)
(* EPS_Calendar: the earnings-cache builder (build_earnings_cache.py) and  *)
(* the history backfill (backfill_earnings_history.py).                    *)
(*                                                                         *)
(* Python strings are modelled as sequences of one-character strings, so   *)
(* that strip(), upper(), lower() and strptime() are computed rather than  *)
(* assumed.  Python's None is the one-element sequence NoneValue, which no *)
(* character string equals.                                                *)
(***************************************************************************)
EXTENDS Integers, Sequences, FiniteSets, TLC

VARIABLES
    api_key,        \* ALPHAVANTAGE_API_KEY, read from the environment at import
    prog,           \* which script the current run executes
    pc,             \* position of the current run
    exit_code,      \* -1 before any run and while one is running, else its exit status
    err,            \* what ended the run with an error ("" if nothing did)
    runs,           \* number of runs started so far
    requests,       \* provider requests issued by the current run
    universe,       \* main(): universe
    raw_rows,       \* main(): raw_rows
    filtered_rows,  \* main(): filtered_rows / filtered
    cache,          \* the file earnings_cache.json
    archive,        \* the files earnings_history/earnings_cache_<stamp>.json, by stamp
    history,        \* the files earnings_history/earnings_<date_str>.json, by date_str
    now,            \* the UTC clock when it was last read, in ticks
    old_data,       \* archive_previous_cache(): old_data
    stamp,          \* archive_previous_cache(): stamp
    today,          \* backfill_history(): today, as a date ordinal
    grouped,        \* backfill_history(): grouped, a sequence of <<date_str, rows>>
    idx,            \* backfill_history(): position of the loop over grouped.items()
    cache0,         \* earnings_cache.json as it was when the current run started
    archive0,       \* the archive files as they were when the current run started
    history0,       \* the history files as they were when the current run started
    gate,           \* whether verify_sanity has run in the current run, and its verdict
    arch_done,      \* whether archive_previous_cache has returned in the current run
    wrote,          \* the date_str whose history file the current run wrote
    prev,           \* <<grouped, today>> of the backfill run completed just before
    in_raw,         \* function checks: the raw rows drawn
    in_universe,    \* function checks: the universe drawn
    in_filtered,    \* function checks: the filtered rows drawn
    out             \* function checks: what the function applied returned

files == << cache, archive, history >>

snapshot == << cache0, archive0, history0 >>

locals == << universe, raw_rows, filtered_rows, old_data, stamp, today, grouped, idx >>

ghosts == << gate, arch_done, wrote, prev >>

drawn == << in_raw, in_universe, in_filtered, out >>

control == << api_key, prog, pc, exit_code, err, runs, requests >>

vars == << control, locals, files, snapshot, ghosts, drawn, now >>

-----------------------------------------------------------------------------
(* Bounds of the model.                                                    *)

MaxRuns == 2        \* runs of the scripts per behaviour
MaxTicks == 3       \* latest clock reading
TicksPerSecond == 2 \* clock ticks in one second of the archive stamp
MaxLen == 3         \* longest raw row sequence drawn for the filter checks
MaxGroupRows == 2   \* longest provider response drawn for a backfill run
Slack == 1          \* how far around a threshold the row counts are drawn

(* Program constants.                                                      *)

MIN_RAW_ROWS == 100
MIN_FILTERED_ROWS == 10
DAYS_TO_BACKFILL == 30

-----------------------------------------------------------------------------
(* Python values and strings.                                              *)

NoneValue == << "<None>" >>

Lowers == << "a", "b", "c", "e", "i", "k", "r", "t", "z" >>
Uppers == << "A", "B", "C", "E", "I", "K", "R", "T", "Z" >>

upper_char(c) ==
    IF \E i \in DOMAIN Lowers : Lowers[i] = c
    THEN Uppers[CHOOSE i \in DOMAIN Lowers : Lowers[i] = c]
    ELSE c

lower_char(c) ==
    IF \E i \in DOMAIN Uppers : Uppers[i] = c
    THEN Lowers[CHOOSE i \in DOMAIN Uppers : Uppers[i] = c]
    ELSE c

upper(s) == [i \in DOMAIN s |-> upper_char(s[i])]

lower(s) == [i \in DOMAIN s |-> lower_char(s[i])]

is_space(c) == c = " "

RECURSIVE lstrip(_)
lstrip(s) ==
    IF s # <<>> /\ is_space(Head(s)) THEN lstrip(Tail(s)) ELSE s

RECURSIVE rstrip(_)
rstrip(s) ==
    IF s # <<>> /\ is_space(s[Len(s)])
    THEN rstrip(SubSeq(s, 1, Len(s) - 1))
    ELSE s

strip(s) == rstrip(lstrip(s))

\* (x or ""): None and "" both give ""
or_empty(x) == IF x = NoneValue THEN <<>> ELSE x

\* (x or None): "" gives None
or_none(x) == IF x = <<>> THEN NoneValue ELSE x

-----------------------------------------------------------------------------
(* load_universe                                                           *)

TICKER == << "T", "I", "C", "K", "E", "R" >>
DOTS == << ".", ".", "." >>

\* rows[start:] of load_universe, turned into the set `tickers`
RECURSIVE collect_tickers(_, _, _, _)
collect_tickers(rows, i, ticker_idx, tickers) ==
    IF i > Len(rows) THEN tickers
    ELSE LET row == rows[i]
             t == upper(strip(or_empty(row[ticker_idx])))
         IN  IF row = <<>> THEN collect_tickers(rows, i + 1, ticker_idx, tickers)
             ELSE IF t = <<>> \/ t = TICKER \/ t = DOTS
                  THEN collect_tickers(rows, i + 1, ticker_idx, tickers)
                  ELSE collect_tickers(rows, i + 1, ticker_idx, tickers \cup {t})

Alphabet ==
    << " ", "-", ".", "0", "1", "2", "3", "4", "5", "6", "7", "8", "9" >>
    \o Uppers \o Lowers

ord(c) == CHOOSE i \in DOMAIN Alphabet : Alphabet[i] = c

RECURSIVE str_less(_, _)
str_less(s, t) ==
    IF t = <<>> THEN FALSE
    ELSE IF s = <<>> THEN TRUE
    ELSE IF Head(s) # Head(t) THEN ord(Head(s)) < ord(Head(t))
    ELSE str_less(Tail(s), Tail(t))

RECURSIVE sorted(_)
sorted(S) ==
    IF S = {} THEN <<>>
    ELSE LET m == CHOOSE x \in S : \A y \in S \ {x} : str_less(x, y)
         IN  << m >> \o sorted(S \ {m})

\* load_universe(path): the sorted ticker list, or the exception raised.
\* path is the CSV file: whether it exists, and its rows of cells.
load_universe(path) ==
    IF ~path.exists
    THEN [ok |-> FALSE, value |-> <<>>, error |-> "universe_missing"]
    ELSE IF path.rows = <<>>
    THEN [ok |-> FALSE, value |-> <<>>, error |-> "universe_empty"]
    ELSE LET file == path.rows
             header == [i \in DOMAIN file[1] |-> lower(strip(file[1][i]))]
             has_header == \E i \in DOMAIN header : header[i] = lower(TICKER)
             ticker_idx == IF has_header
                           THEN CHOOSE i \in DOMAIN header :
                                    /\ header[i] = lower(TICKER)
                                    /\ \A j \in 1..(i - 1) : header[j] # lower(TICKER)
                           ELSE 1
             start == IF has_header THEN 2 ELSE 1
             tickers == collect_tickers(file, start, ticker_idx, {})
         IN  IF tickers = {}
             THEN [ok |-> FALSE, value |-> <<>>, error |-> "no_tickers"]
             ELSE [ok |-> TRUE, value |-> sorted(tickers), error |-> ""]

set_of(seq) == {seq[i] : i \in DOMAIN seq}

-----------------------------------------------------------------------------
(* The Universe Filter: build_filtered_rows and filter_to_universe         *)

RawRow(symbol, reportDate, estimate) ==
    [symbol |-> symbol, name |-> << "n", " " >>, reportDate |-> reportDate,
     fiscalDateEnding |-> NoneValue, estimate |-> estimate, currency |-> << "U" >>]

build_filtered_rows_pass_untrimmed(universe_set, r) ==
    LET symbol == upper(or_empty(r.symbol))
        report_date == or_empty(r.reportDate)
    IN  IF symbol = <<>> THEN <<>>
        ELSE IF symbol \notin universe_set THEN <<>>
        ELSE IF report_date = <<>> THEN <<>>
        ELSE << [symbol |-> symbol, name |-> strip(or_empty(r.name)),
                 reportDate |-> report_date,
                 fiscalDateEnding |-> strip(or_empty(r.fiscalDateEnding)),
                 estimate |-> or_none(strip(or_empty(r.estimate))),
                 currency |-> strip(or_empty(r.currency))] >>

\* build_filtered_rows: one pass of `for r in raw_rows`: what it appends to filtered
build_filtered_rows_pass(universe_set, r) ==
    LET symbol == upper(strip(or_empty(r.symbol)))
        report_date == strip(or_empty(r.reportDate))
        name == strip(or_empty(r.name))
        fiscal == strip(or_empty(r.fiscalDateEnding))
        estimate == strip(or_empty(r.estimate))
        currency == strip(or_empty(r.currency))
    IN  IF symbol = <<>> THEN <<>>
        ELSE IF symbol \notin universe_set THEN <<>>
        ELSE IF report_date = <<>> THEN <<>>
        ELSE << [symbol |-> symbol, name |-> name,
                 reportDate |-> report_date,
                 fiscalDateEnding |-> fiscal,
                 estimate |-> IF estimate # <<>> THEN estimate ELSE NoneValue,
                 currency |-> currency] >>

\* the passes over rows[lo..hi] in order (halved, to keep the recursion shallow)
RECURSIVE build_filtered_rows_loop(_, _, _, _)
build_filtered_rows_loop(universe_set, rows, lo, hi) ==
    IF lo > hi THEN <<>>
    ELSE IF lo = hi THEN build_filtered_rows_pass(universe_set, rows[lo])
    ELSE LET mid == (lo + hi) \div 2
         IN  build_filtered_rows_loop(universe_set, rows, lo, mid)
             \o build_filtered_rows_loop(universe_set, rows, mid + 1, hi)

build_filtered_rows(u, rows) ==
    build_filtered_rows_loop(set_of(u), rows, 1, Len(rows))

\* filter_to_universe: one pass of `for r in raw_rows`: what it appends to out
filter_to_universe_pass(universe_set, r) ==
    LET symbol == upper(strip(or_empty(r.symbol)))
        report_date == strip(or_empty(r.reportDate))
    IN  IF symbol = <<>> \/ symbol \notin universe_set THEN <<>>
        ELSE IF report_date = <<>> THEN <<>>
        ELSE << [symbol |-> symbol,
                 name |-> strip(or_empty(r.name)),
                 reportDate |-> report_date,
                 fiscalDateEnding |-> strip(or_empty(r.fiscalDateEnding)),
                 estimate |-> or_none(strip(or_empty(r.estimate))),
                 currency |-> strip(or_empty(r.currency))] >>

RECURSIVE filter_to_universe_loop(_, _, _, _)
filter_to_universe_loop(universe_set, rows, lo, hi) ==
    IF lo > hi THEN <<>>
    ELSE IF lo = hi THEN filter_to_universe_pass(universe_set, rows[lo])
    ELSE LET mid == (lo + hi) \div 2
         IN  filter_to_universe_loop(universe_set, rows, lo, mid)
             \o filter_to_universe_loop(universe_set, rows, mid + 1, hi)

filter_to_universe(u, rows) ==
    filter_to_universe_loop(set_of(u), rows, 1, Len(rows))

-----------------------------------------------------------------------------
(* Files and JSON.                                                         *)
(*                                                                         *)
(* The content of a file is a text.  A text that json.load accepts is      *)
(* [enc "json"], with the value it parses to and its layout: "compact" is  *)
(* the layout json.dump(..., ensure_ascii=False) produces, "other" any     *)
(* other layout of the same value (indented, other separators).  A text    *)
(* that json.load rejects is [enc "raw"] with its characters, or [enc      *)
(* "partial"]: a proper, non-empty prefix of the compact text of a value.  *)
(* NoFile stands for a path at which no file exists.                       *)

NoFile == [enc |-> "absent", style |-> "", val |-> <<>>]

JsonText(style, v) == [enc |-> "json", style |-> style, val |-> v]

RawText(chars) == [enc |-> "raw", style |-> "", val |-> chars]

PartialText(v) == [enc |-> "partial", style |-> "", val |-> v]

EmptyText == RawText(<<>>)

PyList(rows) == [t |-> "list", v |-> rows]

PyNone == [t |-> "NoneType", v |-> <<>>]

PyStr(chars) == [t |-> "str", v |-> chars]

PyInt(digits) == [t |-> "int", v |-> digits]

\* the str that f.read() returns: the text of the file
PyFileText(text) == [t |-> "text", v |-> text]

\* json.load(f): the value, or the exception json.load raises
json_load(text) ==
    IF text.enc = "json" THEN [ok |-> TRUE, value |-> text.val]
    ELSE [ok |-> FALSE, value |-> PyNone]

\* json.dump(obj, f, ensure_ascii=False): the text written
json_dump(obj) == JsonText("compact", obj)

\* str(obj) of a value that is neither dict nor list
py_str(obj) ==
    CASE obj.t = "text" -> obj.v
      [] obj.t = "NoneType" -> RawText(<< "N", "o", "n", "e" >>)
      [] obj.t = "str" -> RawText(obj.v)
      [] obj.t = "int" -> JsonText("compact", obj)
      [] OTHER -> json_dump(obj)

is_dict_or_list(obj) == obj.t \in {"dict", "list"}

\* datetime.utcnow().strftime("%Y%m%dT%H%M%SZ"): the clock cut to whole seconds
strftime(t) == t \div TicksPerSecond

-----------------------------------------------------------------------------
(* Dates: datetime.strptime(date_str, "%Y-%m-%d").date() and date ordinals *)

Digits == << "0", "1", "2", "3", "4", "5", "6", "7", "8", "9" >>

is_digit(c) == \E i \in DOMAIN Digits : Digits[i] = c

digit(c) == (CHOOSE i \in DOMAIN Digits : Digits[i] = c) - 1

RECURSIVE int_of(_)
int_of(s) ==
    IF s = <<>> THEN 0
    ELSE 10 * int_of(SubSeq(s, 1, Len(s) - 1)) + digit(s[Len(s)])

all_digits(s) == \A i \in DOMAIN s : is_digit(s[i])

is_leap(y) == (y % 4 = 0) /\ ((y % 100 # 0) \/ (y % 400 = 0))

days_in_month(y, m) ==
    IF m = 2 THEN (IF is_leap(y) THEN 29 ELSE 28)
    ELSE IF m \in {4, 6, 9, 11} THEN 30 ELSE 31

RECURSIVE days_before_month(_, _)
days_before_month(y, m) ==
    IF m = 1 THEN 0
    ELSE days_before_month(y, m - 1) + days_in_month(y, m - 1)

days_before_year(y) ==
    (y - 1) * 365 + ((y - 1) \div 4) - ((y - 1) \div 100) + ((y - 1) \div 400)

\* date(y, m, d).toordinal()
toordinal(y, m, d) == days_before_year(y) + days_before_month(y, m) + d

\* %m: 1[0-2]|0[1-9]|[1-9]
match_month(s) ==
    /\ Len(s) \in {1, 2}
    /\ all_digits(s)
    /\ int_of(s) \in 1..12

\* %d: 3[0-1]|[1-2]\d|0[1-9]|[1-9]| [1-9]
match_day(s) ==
    \/ /\ Len(s) \in {1, 2}
       /\ all_digits(s)
       /\ int_of(s) \in 1..31
    \/ /\ Len(s) = 2
       /\ s[1] = " "
       /\ is_digit(s[2])
       /\ digit(s[2]) \in 1..9

\* the characters of s after its first n
drop(s, n) == SubSeq(s, n + 1, Len(s))

\* datetime.strptime(date_str, "%Y-%m-%d").date(): the ordinal of the date, or
\* ValueError
strptime(date_str) ==
    LET bad == [ok |-> FALSE, ordinal |-> 0]
        rest == drop(date_str, 5)
        dashes == {i \in DOMAIN rest : rest[i] = "-"}
    IN  IF \/ Len(date_str) < 8
           \/ ~all_digits(SubSeq(date_str, 1, 4))
           \/ date_str[5] # "-"
           \/ Cardinality(dashes) # 1
        THEN bad
        ELSE LET p == CHOOSE i \in dashes : TRUE
                 ms == SubSeq(rest, 1, p - 1)
                 ds == drop(rest, p)
                 y == int_of(SubSeq(date_str, 1, 4))
                 m == int_of(ms)
                 d == int_of(lstrip(ds))
             IN  IF \/ ~match_month(ms)
                    \/ ~match_day(ds)
                    \/ y < 1
                    \/ d > days_in_month(y, m)
                 THEN bad
                 ELSE [ok |-> TRUE, ordinal |-> toordinal(y, m, d)]

-----------------------------------------------------------------------------
(* The rest of the two scripts' functions.                                 *)

\* fetch_earnings_calendar_from_api(api_key), given the provider's response:
\* the rows, or the exception raised
fetch_earnings_calendar_from_api(resp) ==
    LET raise(e) == [ok |-> FALSE, rows |-> <<>>, error |-> e]
    IN  IF resp.status # "ok" THEN raise("http_error")
        ELSE IF resp.body = "empty" THEN raise("empty_response")
        ELSE IF resp.body = "bad_json" THEN raise("provider_json_unparsed")
        ELSE IF resp.body = "json" THEN raise("provider_error")
        ELSE IF \/ "symbol" \notin set_of(resp.fieldnames)
                \/ "reportdate" \notin set_of(resp.fieldnames)
             THEN raise("missing_columns")
        ELSE IF Len(resp.rows) < MIN_RAW_ROWS THEN raise("too_few_rows")
        ELSE [ok |-> TRUE, rows |-> resp.rows, error |-> ""]

\* fetch_calendar_once(api_key), given the provider's response
fetch_calendar_once(resp) ==
    LET raise(e) == [ok |-> FALSE, rows |-> <<>>, error |-> e]
    IN  IF resp.status # "ok" THEN raise("http_error")
        ELSE IF resp.body = "empty" THEN raise("empty_response")
        ELSE IF resp.body = "bad_json" THEN raise("json_decode_error")
        ELSE IF resp.body = "json" THEN raise("provider_error")
        ELSE IF \/ "symbol" \notin set_of(resp.fieldnames)
                \/ "reportdate" \notin set_of(resp.fieldnames)
             THEN raise("missing_columns")
        ELSE [ok |-> TRUE, rows |-> resp.rows, error |-> ""]

verify_sanity_inclusive(raw, filtered) ==
    IF Len(raw) <= MIN_RAW_ROWS THEN "raw_too_small"
    ELSE IF Len(filtered) <= MIN_FILTERED_ROWS THEN "filtered_too_small"
    ELSE "ok"

verify_sanity_lax(raw, filtered) ==
    IF Len(raw) < MIN_RAW_ROWS THEN "raw_too_small"
    ELSE IF Len(filtered) < MIN_FILTERED_ROWS - 1 THEN "filtered_too_small"
    ELSE "ok"

\* verify_sanity(raw_rows, filtered_rows): "ok" when it returns, else what it raises
verify_sanity(raw, filtered) ==
    IF Len(raw) < MIN_RAW_ROWS THEN "raw_too_small"
    ELSE IF Len(filtered) < MIN_FILTERED_ROWS THEN "filtered_too_small"
    ELSE "ok"

\* archive_previous_cache: old_data, from json.load or from the f.read() fallback
read_old_data(text) ==
    IF json_load(text).ok THEN json_load(text).value ELSE PyFileText(text)

\* archive_previous_cache: what the `with open(archive_path, "w")` block writes
archive_text(data) ==
    IF is_dict_or_list(data) THEN json_dump(data) ELSE py_str(data)

RECURSIVE group_by_date_loop(_, _, _)
group_by_date_loop(rows, i, acc) ==
    IF i > Len(rows) THEN acc
    ELSE LET r == rows[i]
             d == r.reportDate
         IN  IF \E j \in DOMAIN acc : acc[j][1] = d
             THEN LET j == CHOOSE k \in DOMAIN acc : acc[k][1] = d
                  IN  group_by_date_loop(rows, i + 1,
                          [acc EXCEPT ![j] = << d, Append(acc[j][2], r) >>])
             ELSE group_by_date_loop(rows, i + 1, Append(acc, << d, << r >> >>))

\* group_by_date(rows): the dict, as its items in insertion order
group_by_date(rows) == group_by_date_loop(rows, 1, <<>>)

backfill_decision_clobber(date_str, t, exists) ==
    LET d == strptime(date_str)
        cutoff == t - DAYS_TO_BACKFILL
    IN  IF ~d.ok THEN "invalid"
        ELSE IF d.ordinal > t \/ d.ordinal < cutoff THEN "out_of_range"
        ELSE "write"

backfill_decision_open_window(date_str, t, exists) ==
    LET d == strptime(date_str)
        cutoff == t - DAYS_TO_BACKFILL
    IN  IF ~d.ok THEN "invalid"
        ELSE IF d.ordinal >= t \/ d.ordinal <= cutoff THEN "out_of_range"
        ELSE IF exists THEN "exists"
        ELSE "write"

\* backfill_history: what one pass of the loop does with the group of date_str
backfill_decision(date_str, t, exists) ==
    LET d == strptime(date_str)
        cutoff == t - DAYS_TO_BACKFILL
    IN  IF ~d.ok THEN "invalid"
        ELSE IF d.ordinal > t \/ d.ordinal < cutoff THEN "out_of_range"
        ELSE IF exists THEN "exists"
        ELSE "write"

-----------------------------------------------------------------------------
(* The inputs drawn: the environment, the universe file, the provider's    *)
(* response, the cache file found by the first run, the date.              *)

BUILD == "build_earnings_cache"
BACKFILL == "backfill_earnings_history"

ApiKeys == { NoneValue, <<>>, << "k" >> }

UniverseFiles ==
    { [exists |-> FALSE, rows |-> <<>>],
      [exists |-> TRUE, rows |-> <<>>],
      [exists |-> TRUE,
       rows |-> << << << "T", "i", "c", "k", "e", "r" >> >>, << DOTS >> >>],
      [exists |-> TRUE,
       rows |-> << << << "n" >>, << " ", "T", "I", "C", "K", "E", "R" >> >>,
                   << << "x" >>, << "a", "a", " " >> >>,
                   <<>>,
                   << << "y" >>, << "B" >> >>,
                   << << "x" >>, << "A", "A" >> >> >>],
      [exists |-> TRUE,
       rows |-> << << << "a", "a" >> >>, << TICKER >> >>] }

repeat(r, n) == [i \in 1..n |-> r]

ymd(m, d) == << "2", "0", "2", "5", "-" >> \o m \o << "-" >> \o d

Todays == { toordinal(2025, 6, 15), toordinal(2025, 6, 16) }

GoodRow == RawRow(<< " ", "a", "a" >>, ymd(<< "0", "6" >>, << "1", "5" >>),
                  << "1", ".", "5" >>)

BRow == RawRow(<< "b" >>, ymd(<< "0", "6" >>, << "1", "6" >>), <<>>)

OtherRow == RawRow(<< "Z", "Z" >>, ymd(<< "0", "6" >>, << "1", "5" >>), NoneValue)

Csv(rows) ==
    [status |-> "ok", body |-> "csv",
     fieldnames |-> << "symbol", "name", "reportdate" >>, rows |-> rows]

ErrorResponses ==
    { [status |-> "http_error", body |-> "empty", fieldnames |-> <<>>, rows |-> <<>>],
      [status |-> "ok", body |-> "empty", fieldnames |-> <<>>, rows |-> <<>>],
      [status |-> "ok", body |-> "json", fieldnames |-> <<>>, rows |-> <<>>],
      [status |-> "ok", body |-> "bad_json", fieldnames |-> <<>>, rows |-> <<>>],
      [status |-> "ok", body |-> "csv", fieldnames |-> << "ticker", "date" >>,
       rows |-> << GoodRow >>] }

\* responses to the cache builder: n_good rows of the universe {AA, B} (one of
\* them of B) among n_total rows, the counts drawn around the two thresholds
BuildResponses ==
    ErrorResponses \cup
    { Csv(repeat(GoodRow, n_good - 1) \o << BRow >> \o repeat(OtherRow, n_total - n_good)) :
        n_good \in (MIN_FILTERED_ROWS - Slack)..(MIN_FILTERED_ROWS + Slack),
        n_total \in (MIN_RAW_ROWS - Slack)..(MIN_RAW_ROWS + Slack) }

BackfillRows ==
    { GoodRow,
      RawRow(<< "B" >>, ymd(<< "0", "6" >>, << "1", "5" >>), <<>>),
      RawRow(<< "A", "A" >>, ymd(<< "0", "5" >>, << "1", "6" >>), NoneValue),
      RawRow(<< "a", "a" >>, ymd(<< "0", "6" >>, << "1", "6" >>), << "2" >>),
      RawRow(<< "A", "A" >>, ymd(<< "0", "6" >>, << "3", "1" >>), <<>>),
      RawRow(<< "A", "A" >>, ymd(<< "6" >>, << "1", " " >>), <<>>) }

RECURSIVE SeqsUpTo(_, _)
SeqsUpTo(S, n) ==
    IF n = 0 THEN { <<>> }
    ELSE LET shorter == SeqsUpTo(S, n - 1)
         IN  shorter \cup { Append(q, x) : q \in shorter, x \in S }

BackfillResponses ==
    ErrorResponses \cup { Csv(rows) : rows \in SeqsUpTo(BackfillRows, MaxGroupRows) }

OldRows == build_filtered_rows(<< << "A", "A" >> >>, << GoodRow >>)

\* earnings_cache.json as the first run may find it: written by an earlier run;
\* the JSON scalars null, "err" and 7; text that is not JSON; a JSON array in
\* another layout; absent
PriorCaches ==
    << JsonText("compact", PyList(OldRows)),
       JsonText("compact", PyNone),
       JsonText("compact", PyStr(<< "e", "r", "r" >>)),
       JsonText("compact", PyInt(<< "7" >>)),
       RawText(<< "e", "r", "r" >>),
       JsonText("other", PyList(OldRows)),
       NoFile >>

EmptyMap == [x \in {} |-> NoFile]

put(map, k, text) ==
    [x \in DOMAIN map \cup {k} |-> IF x = k THEN text ELSE map[x]]

NoPrev == << <<>>, 0 >>

-----------------------------------------------------------------------------
(* The two scripts, step by step.                                          *)

\* before the first run: no run-time state, no archive or history file yet
NoRunYet ==
    /\ api_key = NoneValue
    /\ prog = ""
    /\ pc = "idle"
    /\ exit_code = -1
    /\ err = ""
    /\ runs = 0
    /\ requests = 0
    /\ universe = <<>>
    /\ raw_rows = <<>>
    /\ filtered_rows = <<>>
    /\ archive = EmptyMap
    /\ history = EmptyMap
    /\ now = 0
    /\ old_data = PyNone
    /\ stamp = 0
    /\ today = 0
    /\ grouped = <<>>
    /\ idx = 0
    /\ cache0 = cache
    /\ archive0 = archive
    /\ history0 = history
    /\ gate = "none"
    /\ arch_done = FALSE
    /\ wrote = {}
    /\ prev = NoPrev

NotApplied == [fn |-> "", rows |-> <<>>, verdict |-> ""]

Init ==
    /\ \E i \in DOMAIN PriorCaches : cache = PriorCaches[i]
    /\ NoRunYet
    /\ in_raw = <<>>
    /\ in_universe = <<>>
    /\ in_filtered = <<>>
    /\ out = NotApplied

\* sys.exit(1), or an exception that ends the process
Fail(e) ==
    /\ pc' = "exited"
    /\ exit_code' = 1
    /\ err' = e

\* the script is started: python build_earnings_cache.py / backfill_earnings_history.py
Start(p) ==
    /\ pc \in {"idle", "exited"}
    /\ runs < MaxRuns
    /\ runs' = runs + 1
    /\ prog' = p
    /\ \E k \in ApiKeys : api_key' = k
    /\ pc' = "require_api_key"
    /\ exit_code' = -1
    /\ err' = ""
    /\ requests' = 0
    /\ universe' = <<>>
    /\ raw_rows' = <<>>
    /\ filtered_rows' = <<>>
    /\ old_data' = PyNone
    /\ stamp' = 0
    /\ today' = 0
    /\ grouped' = <<>>
    /\ idx' = 0
    /\ cache0' = cache
    /\ archive0' = archive
    /\ history0' = history
    /\ gate' = "none"
    /\ arch_done' = FALSE
    /\ wrote' = {}
    /\ prev' = IF prog = BACKFILL /\ exit_code = 0 THEN << grouped, today >> ELSE prev
    /\ UNCHANGED << files, drawn, now >>

StartBuild == Start(BUILD)

StartBackfill == Start(BACKFILL)

RequireApiKeyLax ==
    /\ pc = "require_api_key"
    /\ pc' = "load_universe"
    /\ UNCHANGED << api_key, prog, exit_code, err, runs, requests >>
    /\ UNCHANGED << locals, files, snapshot, ghosts, drawn, now >>

\* require_api_key()
RequireApiKey ==
    /\ pc = "require_api_key"
    /\ IF api_key = NoneValue \/ api_key = <<>>
       THEN Fail("no_api_key")
       ELSE /\ pc' = "load_universe"
            /\ UNCHANGED << exit_code, err >>
    /\ UNCHANGED << api_key, prog, runs, requests >>
    /\ UNCHANGED << locals, files, snapshot, ghosts, drawn, now >>

\* universe = load_universe(UNIVERSE_CSV)
LoadUniverse ==
    /\ pc = "load_universe"
    /\ \E f \in UniverseFiles :
         LET res == load_universe(f)
         IN  IF res.ok
             THEN /\ universe' = res.value
                  /\ pc' = "fetch"
                  /\ UNCHANGED << exit_code, err >>
             ELSE /\ Fail(res.error)
                  /\ UNCHANGED universe
    /\ UNCHANGED << api_key, prog, runs, requests >>
    /\ UNCHANGED << raw_rows, filtered_rows, old_data, stamp, today, grouped, idx >>
    /\ UNCHANGED << files, snapshot, ghosts, drawn, now >>

\* raw_rows = fetch_earnings_calendar_from_api(api_key) / fetch_calendar_once(api_key)
Fetch ==
    /\ pc = "fetch"
    /\ requests' = requests + 1
    /\ \E resp \in (IF prog = BUILD THEN BuildResponses ELSE BackfillResponses) :
         LET res == IF prog = BUILD
                    THEN fetch_earnings_calendar_from_api(resp)
                    ELSE fetch_calendar_once(resp)
         IN  IF res.ok
             THEN /\ raw_rows' = res.rows
                  /\ pc' = "filter"
                  /\ UNCHANGED << exit_code, err >>
             ELSE /\ Fail(res.error)
                  /\ UNCHANGED raw_rows
    /\ UNCHANGED << api_key, prog, runs >>
    /\ UNCHANGED << universe, filtered_rows, old_data, stamp, today, grouped, idx >>
    /\ UNCHANGED << files, snapshot, ghosts, drawn, now >>

\* filtered_rows = build_filtered_rows(universe, raw_rows)
\* filtered = filter_to_universe(universe, raw_rows)
Filter ==
    /\ pc = "filter"
    /\ filtered_rows' = IF prog = BUILD
                        THEN build_filtered_rows(universe, raw_rows)
                        ELSE filter_to_universe(universe, raw_rows)
    /\ pc' = IF prog = BUILD THEN "verify_sanity" ELSE "group"
    /\ UNCHANGED << api_key, prog, exit_code, err, runs, requests >>
    /\ UNCHANGED << universe, raw_rows, old_data, stamp, today, grouped, idx >>
    /\ UNCHANGED << files, snapshot, ghosts, drawn, now >>

\* verify_sanity(raw_rows, filtered_rows)
VerifySanity ==
    /\ pc = "verify_sanity"
    /\ LET verdict == verify_sanity(raw_rows, filtered_rows)
       IN  IF verdict = "ok"
           THEN /\ gate' = "accept"
                /\ pc' = "archive_exists"
                /\ UNCHANGED << exit_code, err >>
           ELSE /\ gate' = "reject"
                /\ Fail(verdict)
    /\ UNCHANGED << api_key, prog, runs, requests >>
    /\ UNCHANGED << locals, files, snapshot, arch_done, wrote, prev, drawn, now >>

\* archive_previous_cache: if not os.path.exists(current_path): return
ArchiveExists ==
    /\ pc = "archive_exists"
    /\ IF cache = NoFile
       THEN /\ arch_done' = TRUE
            /\ pc' = "cache_open"
       ELSE /\ pc' = "archive_read"
            /\ UNCHANGED arch_done
    /\ UNCHANGED << api_key, prog, exit_code, err, runs, requests >>
    /\ UNCHANGED << locals, files, snapshot, gate, wrote, prev, drawn, now >>

\* archive_previous_cache: os.makedirs, json.load(f) or the f.read() fallback
ArchiveRead ==
    /\ pc = "archive_read"
    /\ old_data' = read_old_data(cache)
    /\ pc' = "archive_open"
    /\ UNCHANGED << api_key, prog, exit_code, err, runs, requests >>
    /\ UNCHANGED << universe, raw_rows, filtered_rows, stamp, today, grouped, idx >>
    /\ UNCHANGED << files, snapshot, ghosts, drawn, now >>

\* archive_previous_cache: stamp = datetime.utcnow().strftime(...), the clock having
\* advanced to t since the run before read it; open(archive_path, "w") creates
\* or empties the file of that name
ArchiveOpen ==
    /\ pc = "archive_open"
    /\ \E t \in (now + 1)..MaxTicks :
         /\ now' = t
         /\ stamp' = strftime(t)
         /\ archive' = put(archive, strftime(t), EmptyText)
    /\ pc' = "archive_write"
    /\ UNCHANGED << api_key, prog, exit_code, err, runs, requests >>
    /\ UNCHANGED << universe, raw_rows, filtered_rows, old_data, today, grouped, idx >>
    /\ UNCHANGED << cache, history, snapshot, ghosts, drawn >>

\* archive_previous_cache: json.dump has written only part of a dict or list so far
ArchiveChunk ==
    /\ pc = "archive_write"
    /\ is_dict_or_list(old_data)
    /\ archive[stamp] = EmptyText
    /\ archive' = put(archive, stamp, PartialText(old_data))
    /\ UNCHANGED << control, locals, cache, history, snapshot, ghosts, drawn, now >>

\* archive_previous_cache: the write completes, the file is closed, the function returns
ArchiveWrite ==
    /\ pc = "archive_write"
    /\ archive' = put(archive, stamp, archive_text(old_data))
    /\ arch_done' = TRUE
    /\ pc' = "cache_open"
    /\ UNCHANGED << api_key, prog, exit_code, err, runs, requests >>
    /\ UNCHANGED << locals, cache, history, snapshot, gate, wrote, prev, drawn, now >>

ArchiveFailSwallowed ==
    /\ pc \in {"archive_read", "archive_open", "archive_write"}
    /\ err' = "archive_failed"
    /\ pc' = "cache_open"
    /\ UNCHANGED << api_key, prog, exit_code, runs, requests >>
    /\ UNCHANGED << locals, files, snapshot, ghosts, drawn, now >>

\* archive_previous_cache raises (OSError from makedirs, open, read, write): the
\* exception leaves write_cache_json and main's handler exits
ArchiveFail ==
    /\ pc \in {"archive_read", "archive_open", "archive_write"}
    /\ Fail("archive_failed")
    /\ UNCHANGED << api_key, prog, runs, requests >>
    /\ UNCHANGED << locals, files, snapshot, ghosts, drawn, now >>

\* write_cache_json: open(path, "w") creates or empties earnings_cache.json
CacheOpen ==
    /\ pc = "cache_open"
    /\ cache' = EmptyText
    /\ pc' = "cache_dump"
    /\ UNCHANGED << api_key, prog, exit_code, err, runs, requests >>
    /\ UNCHANGED << locals, archive, history, snapshot, ghosts, drawn, now >>

\* write_cache_json: json.dump has written only part of the rows so far
CacheChunk ==
    /\ pc = "cache_dump"
    /\ cache = EmptyText
    /\ cache' = PartialText(PyList(filtered_rows))
    /\ UNCHANGED << control, locals, archive, history, snapshot, ghosts, drawn, now >>

\* write_cache_json: json.dump completes, the file is closed; main returns
CacheDump ==
    /\ pc = "cache_dump"
    /\ cache' = json_dump(PyList(filtered_rows))
    /\ pc' = "exited"
    /\ exit_code' = 0
    /\ UNCHANGED << api_key, prog, err, runs, requests >>
    /\ UNCHANGED << locals, archive, history, snapshot, ghosts, drawn, now >>

\* write_cache_json raises while opening or writing earnings_cache.json
CacheFail ==
    /\ pc \in {"cache_open", "cache_dump"}
    /\ Fail("cache_write_failed")
    /\ UNCHANGED << api_key, prog, runs, requests >>
    /\ UNCHANGED << locals, files, snapshot, ghosts, drawn, now >>

\* grouped = group_by_date(filtered); backfill_history: os.makedirs, today, cutoff
Group ==
    /\ pc = "group"
    /\ grouped' = group_by_date(filtered_rows)
    /\ \E t \in Todays : today' = t
    /\ idx' = 1
    /\ pc' = "backfill_loop"
    /\ UNCHANGED << api_key, prog, exit_code, err, runs, requests >>
    /\ UNCHANGED << universe, raw_rows, filtered_rows, old_data, stamp >>
    /\ UNCHANGED << files, snapshot, ghosts, drawn, now >>

\* backfill_history: one pass of `for date_str, rows in grouped.items()`
BackfillStep ==
    /\ pc = "backfill_loop"
    /\ idx <= Len(grouped)
    /\ LET date_str == grouped[idx][1]
           rows == grouped[idx][2]
       IN  IF backfill_decision(date_str, today, date_str \in DOMAIN history) = "write"
           THEN /\ history' = put(history, date_str, json_dump(PyList(rows)))
                /\ wrote' = wrote \cup {date_str}
           ELSE UNCHANGED << history, wrote >>
    /\ idx' = idx + 1
    /\ UNCHANGED << control, cache, archive, snapshot, gate, arch_done, prev, drawn, now >>
    /\ UNCHANGED << universe, raw_rows, filtered_rows, old_data, stamp, today, grouped >>

\* backfill_history returns after the loop; main returns
BackfillDone ==
    /\ pc = "backfill_loop"
    /\ idx > Len(grouped)
    /\ pc' = "exited"
    /\ exit_code' = 0
    /\ UNCHANGED << api_key, prog, err, runs, requests >>
    /\ UNCHANGED << locals, files, snapshot, ghosts, drawn, now >>

Next ==
    \/ StartBuild
    \/ StartBackfill
    \/ RequireApiKey
    \/ LoadUniverse
    \/ Fetch
    \/ Filter
    \/ VerifySanity
    \/ ArchiveExists
    \/ ArchiveRead
    \/ ArchiveOpen
    \/ ArchiveChunk
    \/ ArchiveWrite
    \/ ArchiveFail
    \/ CacheOpen
    \/ CacheChunk
    \/ CacheDump
    \/ CacheFail
    \/ Group
    \/ BackfillStep
    \/ BackfillDone

\* runs of either script, one after the other, in any order
Spec == Init /\ [][Next]_vars

NextBuild ==
    \/ StartBuild
    \/ RequireApiKey
    \/ LoadUniverse
    \/ Fetch
    \/ Filter
    \/ VerifySanity
    \/ ArchiveExists
    \/ ArchiveRead
    \/ ArchiveOpen
    \/ ArchiveChunk
    \/ ArchiveWrite
    \/ ArchiveFail
    \/ CacheOpen
    \/ CacheChunk
    \/ CacheDump
    \/ CacheFail

\* runs of build_earnings_cache.py alone
SpecBuild == Init /\ [][NextBuild]_vars

NextBackfill ==
    \/ StartBackfill
    \/ RequireApiKey
    \/ LoadUniverse
    \/ Fetch
    \/ Filter
    \/ Group
    \/ BackfillStep
    \/ BackfillDone

\* runs of backfill_earnings_history.py alone
SpecBackfill == Init /\ [][NextBackfill]_vars

-----------------------------------------------------------------------------
(* The functions on their own: inputs drawn, then the function applied.    *)

CountRow == RawRow(<< "A", "A" >>, ymd(<< "0", "6" >>, << "1", "5" >>), <<>>)

InitSanity ==
    /\ cache = NoFile
    /\ NoRunYet
    /\ in_universe = <<>>
    /\ \E n \in 0..(MIN_RAW_ROWS + Slack) :
         /\ in_raw = repeat(CountRow, n)
         /\ \E k \in 0..(MIN_FILTERED_ROWS + Slack) :
              /\ k <= n
              /\ in_filtered = repeat(CountRow, k)
    /\ out = NotApplied

ApplyVerifySanity ==
    /\ out = NotApplied
    /\ out' = [fn |-> "verify_sanity", rows |-> <<>>,
               verdict |-> verify_sanity(in_raw, in_filtered)]
    /\ UNCHANGED << control, locals, files, snapshot, ghosts, now >>
    /\ UNCHANGED << in_raw, in_universe, in_filtered >>

NextSanity == ApplyVerifySanity

SpecSanity == InitSanity /\ [][NextSanity]_vars

FilterRows ==
    { GoodRow,
      RawRow(<< "B", " " >>, ymd(<< "0", "6" >>, << "1", "6" >>), <<>>),
      OtherRow,
      RawRow(<< "A", "A" >>, << " " >>, << "2" >>),
      RawRow(NoneValue, ymd(<< "0", "6" >>, << "1", "5" >>), << "2" >>),
      RawRow(<< "a", "a" >>, NoneValue, << "2" >>),
      RawRow(<< "A", "A" >>, ymd(<< "0", "6" >>, << "1", "5" >>), << " " >>) }

Universes == { load_universe(f).value : f \in {g \in UniverseFiles : load_universe(g).ok} }

InitFilter ==
    /\ cache = NoFile
    /\ NoRunYet
    /\ in_universe \in Universes
    /\ in_raw \in SeqsUpTo(FilterRows, MaxLen)
    /\ in_filtered = <<>>
    /\ out = NotApplied

ApplyBuildFilteredRows ==
    /\ out = NotApplied
    /\ out' = [fn |-> "build_filtered_rows",
               rows |-> build_filtered_rows(in_universe, in_raw), verdict |-> ""]
    /\ UNCHANGED << control, locals, files, snapshot, ghosts, now >>
    /\ UNCHANGED << in_raw, in_universe, in_filtered >>

ApplyFilterToUniverse ==
    /\ out = NotApplied
    /\ out' = [fn |-> "filter_to_universe",
               rows |-> filter_to_universe(in_universe, in_raw), verdict |-> ""]
    /\ UNCHANGED << control, locals, files, snapshot, ghosts, now >>
    /\ UNCHANGED << in_raw, in_universe, in_filtered >>

NextFilter ==
    \/ ApplyBuildFilteredRows
    \/ ApplyFilterToUniverse

SpecFilter == InitFilter /\ [][NextFilter]_vars

-----------------------------------------------------------------------------
(* The claims.                                                             *)

\* the Sanity Gate's rule, as the specification words it
GateRejects == Len(raw_rows) < 100 \/ Len(filtered_rows) < 10

\* C1: in a run of the cache builder in which the Sanity Gate rejects, the cache
\* file is as it was before the run, no archive file is created, and the run
\* exits non-zero.
C1_RejectionLeavesCacheUntouched ==
    (prog = BUILD /\ gate # "none" /\ GateRejects) =>
        /\ cache = cache0
        /\ archive = archive0
        /\ pc = "exited"
        /\ exit_code = 1

\* a run that got its rows, found too few of them in the universe and ended,
\* with a cache file on disk
C1_Witness ==
    /\ prog = BUILD
    /\ gate = "reject"
    /\ Len(raw_rows) >= 100
    /\ Len(filtered_rows) = 9
    /\ cache0 # NoFile
    /\ pc = "exited"

\* C2: when a cache file exists, its archive copy is written completely before
\* the cache file is overwritten, and a run whose archive step fails never
\* overwrites the cache file.
C2_ArchiveBeforeOverwrite ==
    prog = BUILD =>
        /\ cache # cache0 => arch_done
        /\ (cache0 # NoFile /\ arch_done) =>
              /\ stamp \in DOMAIN archive
              /\ archive[stamp] = archive_text(read_old_data(cache0))
        /\ err = "archive_failed" => cache = cache0

\* a run that overwrote an existing cache file
C2_Witness ==
    /\ prog = BUILD
    /\ cache0 # NoFile
    /\ cache # cache0
    /\ arch_done
    /\ exit_code = 0

\* C3: after a successful run that found a cache file, exactly one new archive
\* file exists, its content is the cache file's content before the run, and the
\* cache file holds the new dataset.
C3_ArchiveHoldsPriorContent ==
    (prog = BUILD /\ exit_code = 0 /\ cache0 # NoFile) =>
        LET new == DOMAIN archive \ DOMAIN archive0
        IN  /\ Cardinality(new) = 1
            /\ \A s \in new : archive[s] = cache0
            /\ cache = json_dump(PyList(filtered_rows))

\* C4: the archive is append-only: no run changes or removes an archive file
\* that existed when it started (each run archives under a name of its own).
C4_ArchiveAppendOnly ==
    \A s \in DOMAIN archive0 :
        /\ s \in DOMAIN archive
        /\ archive[s] = archive0[s]

\* C5: a history file, once it exists, is never changed by backfill_history; and
\* a backfill run with the input and the date of the backfill run completed before
\* it writes no file and leaves the history directory as it found it.
C5_HistoryNeverRewritten ==
    /\ \A d \in DOMAIN history0 :
          /\ d \in DOMAIN history
          /\ history[d] = history0[d]
    /\ (prog = BACKFILL /\ today # 0 /\ prev = << grouped, today >>) =>
          /\ wrote = {}
          /\ history = history0

\* a second run, given what the first was given, after the first wrote a file
C5_Witness ==
    /\ prog = BACKFILL
    /\ pc = "exited"
    /\ exit_code = 0
    /\ prev = << grouped, today >>
    /\ grouped # <<>>
    /\ DOMAIN history0 # {}

\* C6: the cache file holds, at every point of a run that found one and after a
\* run that failed overwriting it, either the whole previous snapshot or the
\* whole new dataset.
C6_CacheAlwaysWhole ==
    (prog = BUILD /\ cache0 # NoFile) =>
        \/ cache = cache0
        \/ /\ gate = "accept"
           /\ cache = json_dump(PyList(filtered_rows))

\* the rows of filtered_rows whose reportDate is date_str
GroupOf(date_str) ==
    LET has_date(r) == r.reportDate = date_str
    IN  SelectSeq(filtered_rows, has_date)

\* the date parses, lies in [today - 30 days, today], and had no file
Qualifies(date_str) ==
    /\ strptime(date_str).ok
    /\ today - 30 <= strptime(date_str).ordinal
    /\ strptime(date_str).ordinal <= today
    /\ date_str \notin DOMAIN history0

\* C7: backfill_history writes the file of a group exactly when the group's date
\* parses, lies in [today - 30 days, today] and has no file yet; the file then
\* holds exactly the group's rows; no other file is written or changed.
C7_WritesExactlyQualifyingGroups ==
    (prog = BACKFILL /\ today # 0) =>
        /\ {grouped[i][1] : i \in DOMAIN grouped}
              = {filtered_rows[i].reportDate : i \in DOMAIN filtered_rows}
        /\ \A i \in DOMAIN grouped :
              LET date_str == grouped[i][1]
              IN  /\ grouped[i][2] = GroupOf(date_str)
                  /\ date_str \in wrote <=> (i < idx /\ Qualifies(date_str))
                  /\ date_str \in wrote =>
                        /\ date_str \in DOMAIN history
                        /\ history[date_str] = json_dump(PyList(GroupOf(date_str)))
        /\ DOMAIN history = DOMAIN history0 \cup wrote
        /\ \A d \in DOMAIN history0 : history[d] = history0[d]

\* a completed run that wrote the file of one group and skipped another group
C7_Witness ==
    /\ prog = BACKFILL
    /\ pc = "exited"
    /\ exit_code = 0
    /\ Len(grouped) = 2
    /\ Cardinality(wrote) = 1
    /\ \E i \in DOMAIN grouped : Len(grouped[i][2]) = 1 /\ grouped[i][1] \in wrote

\* C8: verify_sanity raises exactly when there are fewer than 100 raw rows or
\* fewer than 10 filtered rows.
C8_SanityThresholds ==
    out.fn = "verify_sanity" =>
        (out.verdict # "ok" <=> (Len(in_raw) < 100 \/ Len(in_filtered) < 10))

\* verify_sanity accepting at both thresholds
C8_Witness ==
    /\ out.fn = "verify_sanity"
    /\ out.verdict = "ok"
    /\ Len(in_raw) = 100
    /\ Len(in_filtered) = 10

\* the rows of result are the rows of raw that Keep keeps, in raw's order
FilterKeeps(u, raw, result, Keep(_, _)) ==
    LET K == {i \in DOMAIN raw : Keep(u, raw[i])}
        rank(i) == Cardinality({j \in K : j <= i})
    IN  /\ Len(result) = Cardinality(K)
        /\ \A i \in K :
              /\ result[rank(i)].symbol = upper(strip(raw[i].symbol))
              /\ result[rank(i)].reportDate = strip(raw[i].reportDate)
              /\ result[rank(i)].estimate = or_none(strip(or_empty(raw[i].estimate)))

SurvivesAsClaimed(u, r) ==
    /\ upper(or_empty(r.symbol)) \in set_of(u)
    /\ or_empty(r.reportDate) # <<>>

SurvivesTrimmed(u, r) ==
    /\ upper(strip(or_empty(r.symbol))) \in set_of(u)
    /\ strip(or_empty(r.reportDate)) # <<>>

\* C9 as claimed: a row survives the filter exactly when its uppercased symbol is
\* in the universe and its reportDate is not empty, the survivors keeping their
\* order.
C9_SurvivesIffUppercasedInUniverse ==
    out.fn \in {"build_filtered_rows", "filter_to_universe"} =>
        FilterKeeps(in_universe, in_raw, out.rows, SurvivesAsClaimed)

\* C9 amended: a row survives the filter exactly when its symbol, trimmed and
\* uppercased, is in the universe and its reportDate is not empty once trimmed;
\* the survivors keep their order, and no file changes.
C9_SurvivesIffTrimmedInUniverse ==
    out.fn \in {"build_filtered_rows", "filter_to_universe"} =>
        /\ FilterKeeps(in_universe, in_raw, out.rows, SurvivesTrimmed)
        /\ files = << NoFile, EmptyMap, EmptyMap >>

\* the filter applied to rows of which it keeps some, with one dropped in between
C9_Witness ==
    /\ out.fn = "build_filtered_rows"
    /\ Len(in_raw) = 3
    /\ Len(out.rows) = 2
    /\ SurvivesTrimmed(in_universe, in_raw[1])
    /\ ~SurvivesTrimmed(in_universe, in_raw[2])
    /\ ~SurvivesAsClaimed(in_universe, in_raw[1])

\* C10: a run issues at most one provider request, and only after the API key
\* check and the universe load succeeded; a missing key, a missing or empty
\* universe file or a universe without tickers ends the run with exit code 1,
\* no request and no file written; a run exits 0 only having completed every stage.
C10_OneRequestAfterChecks ==
    /\ requests <= 1
    /\ requests = 1 =>
          /\ api_key \notin {NoneValue, <<>>}
          /\ universe # <<>>
    /\ (api_key \in {NoneValue, <<>>} /\ pc \notin {"idle", "require_api_key"}) =>
          err = "no_api_key"
    /\ err \in {"no_api_key", "universe_missing", "universe_empty", "no_tickers"} =>
          /\ pc = "exited"
          /\ exit_code = 1
          /\ requests = 0
          /\ files = snapshot
    /\ pc = "exited" => exit_code \in {0, 1}
    /\ exit_code = 0 =>
          /\ pc = "exited"
          /\ requests = 1
          /\ prog = BUILD =>
                /\ gate = "accept"
                /\ arch_done
                /\ cache = json_dump(PyList(filtered_rows))
          /\ prog = BACKFILL =>
                /\ grouped = group_by_date(filtered_rows)
                /\ idx = Len(grouped) + 1

\* a backfill run ended by a universe file without tickers
C10_Witness ==
    /\ prog = BACKFILL
    /\ pc = "exited"
    /\ err = "no_tickers"
    /\ exit_code = 1
    /\ requests = 0

====
